---- MODULE Spec2Model ----
(***************************************************************************)
(* A model of librosco / libmemsinjection (src/src/protocol.c and          *)
(* src/src/setup.c, the linux build): the serial transport primitives, the *)
(* command/echo transaction, the link initialisation handshake, the frame  *)
(* acquisition and decode, the single-command operations and the           *)
(* connection mutex.                                                       *)
(*                                                                         *)
(* Every thread of the host program is a small interpreter of the C        *)
(* functions: th[t].pc is the position inside the function being executed, *)
(* th[t].stack the return positions of its callers.  One step of the model *)
(* is at most one system call (read, write, open, close, a mutex           *)
(* operation) together with the local computation around it.               *)
(***************************************************************************)
EXTENDS Integers, Sequences, FiniteSets, TLC

(***************************************************************************)
(* Program constants.                                                      *)
(***************************************************************************)
MEMS_ReqData        == 128   \* 0x80
MEMS_ClearFaults    == 204   \* 0xCC
MEMS_Heartbeat      == 244   \* 0xF4
MEMS_GetIACPosition == 251   \* 0xFB
MEMS_FuelPumpOn     == 17    \* 0x11
MEMS_FuelPumpOff    == 1     \* 0x01
MEMS_PTCRelayOn     == 18    \* 0x12
MEMS_PTCRelayOff    == 2     \* 0x02
MEMS_ACRelayOn      == 19    \* 0x13
MEMS_ACRelayOff     == 3     \* 0x03
MEMS_TestInjectors  == 247   \* 0xF7
MEMS_FireCoil       == 248   \* 0xF8
MEMS_OpenIAC        == 253   \* 0xFD
MEMS_CloseIAC       == 254   \* 0xFE
IAC_MAXIMUM         == 180   \* 0xB4
command_a           == 202   \* 0xCA
command_b           == 117   \* 0x75
command_c           == MEMS_Heartbeat
command_d           == 208   \* 0xD0
FrameSize           == 28    \* sizeof(mems_data_frame)
D0Size              == 4     \* bytes expected after the echo of 0xD0

(***************************************************************************)
(* Bounds and input sets of the model.                                     *)
(***************************************************************************)
Threads   == {1, 2}
NoThread  == 0
Main      == 1          \* the thread of a single-threaded host program
MaxCalls  == 1          \* library calls made by the single-threaded host
MaxCallsMT == 1         \* library calls made by each of the concurrent threads
SerialFd  == 3          \* the descriptor open() returns for the device
Byte      == 0 .. 255

\* What the ECU answers: two identification replies and two data frames.
EcuIds    == << <<153, 0, 3, 3>>, <<1, 2, 3, 4>> >>
EcuFrame(p) == [i \in 1 .. FrameSize |->
                  IF p = 1 THEN (i * 9 + 46) % 256 ELSE (255 - 3 * i) % 256]
Ecus      == 1 .. 2

VARIABLES
    sd,           \* info->sd
    mutex,        \* info->mutex: the thread that holds it, or NoThread
    osOpen,       \* descriptors of the device that are open in the process
    closes,       \* close() calls on the descriptor since open() returned it
    th,           \* per thread: position, locals, buffers of the caller
    lastIO,       \* the thread that made the last transport read or write
    interleaved   \* a transport access fell between two of another call

conn == <<sd, osOpen, closes>>
wire == <<lastIO, interleaved>>
vars == <<sd, mutex, osOpen, closes, th, lastIO, interleaved>>

(***************************************************************************)
(* Helpers on records and sequences.                                       *)
(***************************************************************************)
Merge(r, u) == [f \in DOMAIN r |-> IF f \in DOMAIN u THEN u[f] ELSE r[f]]

Set(t, u) == th' = [th EXCEPT ![t] = Merge(th[t], u)]

\* Store with a buffer pointer that is never advanced.
Store_NotAdvanced(buf, off, bs) ==
    [i \in 1 .. Len(buf) |-> IF i <= Len(bs) THEN bs[i] ELSE buf[i]]

\* Store the bytes bs at offset off (0-based) of buffer buf; what falls
\* beyond the end of buf is not kept in buf.
Store(buf, off, bs) ==
    [i \in 1 .. Len(buf) |->
        IF i > off /\ i <= off + Len(bs) THEN bs[i - off] ELSE buf[i]]

\* Number of bytes of a store that fall beyond the end of buf.
Beyond(buf, off, n) ==
    IF off + n > Len(buf) THEN off + n - Len(buf) ELSE 0

\* A buffer of n bytes nothing has been read into yet (0xAA).
Fill(n) == [i \in 1 .. n |-> 170]

(***************************************************************************)
(* The caller's memory and the initial state.                              *)
(***************************************************************************)
\* mems_data as the caller holds it before any successful mems_read.  The
\* float fields are kept in thousandths (millivolt, milli-psi).
NoData ==
    [engine_rpm |-> 7, coolant_temp_f |-> 7, ambient_temp_f |-> 7,
     intake_air_temp_f |-> 7, fuel_temp_f |-> 7, map_psi |-> 7,
     battery_voltage |-> 7, throttle_pot_voltage |-> 7, idle_switch |-> 7,
     park_neutral_switch |-> 7, fault_codes |-> 7, iac_position |-> 7]

\* The buffers read() stores into: the locals `response' of
\* mems_send_command (sc_response) and of the operations (response), the
\* local dframe of mems_read, and the caller's d0_response_buffer, frame
\* and position.
NoMem ==
    [sc_response |-> <<255>>, response |-> <<255>>, dframe |-> Fill(FrameSize),
     d0 |-> Fill(D0Size), frame |-> Fill(FrameSize), position |-> Fill(1)]

InitThread ==
    [pc |-> "idle", stack |-> <<>>, op |-> "none", arg |-> FALSE, calls |-> 0,
     rvi |-> 0, rvb |-> FALSE, result |-> FALSE, status |-> FALSE,
     cmd |-> 0, quantity |-> 0, total |-> 0, dst |-> "response",
     mem |-> NoMem, data |-> NoData, old |-> [data |-> NoData, mem |-> NoMem],
     io |-> <<>>, started |-> FALSE, overrun |-> 0, ecu |-> 1, rich |-> TRUE]

\* mems_init() has run; the device is either not yet opened or has been
\* opened by an earlier mems_connect().
Init ==
    /\ sd \in {0, SerialFd}
    /\ osOpen = IF sd = SerialFd THEN {SerialFd} ELSE {}
    /\ closes = 0
    /\ mutex = NoThread
    /\ th = [t \in Threads |-> InitThread]
    /\ lastIO = NoThread
    /\ interleaved = FALSE

(***************************************************************************)
(* setup.c: mems_is_connected                                              *)
(***************************************************************************)
mems_is_connected(s) == s > 0

(***************************************************************************)
(* The operating system's read() and write() on a descriptor.              *)
(***************************************************************************)
\* The line is explored in full (rich: errors, timeouts, split and
\* oversized chunks, the system calls recorded in io) for the calls of the
\* single-threaded host, and reduced to "answers or stays silent" for the
\* calls of concurrent threads.

\* Results write(fd, buf, 1) can have.
WriteResults(fd, rich) ==
    IF fd \notin osOpen THEN {-1} ELSE IF rich THEN {-1, 0, 1} ELSE {0, 1}

\* Sizes of the chunks a read() asking for q bytes can deliver when total
\* bytes have been taken already: one byte, what is missing (one less, one
\* more), all it was asked for.
Chunks(q, total) ==
    {n \in {1, q - total - 1, q - total, q - total + 1, q} : n >= 1 /\ n <= q}

\* Results read(fd, buf, q) can have: an error, a timeout, a chunk.
ReadResults(fd, q, total, rich) ==
    IF fd \notin osOpen THEN {-1}
    ELSE IF rich THEN {-1, 0} \cup Chunks(q, total) ELSE {0, q - total}

\* The bytes the line holds for a read into dst: a single byte is the
\* echo, a zero or something else; longer replies come from the ECU's
\* identification or frame, followed by stale bytes (0xEE).
Line(t, dst) ==
    LET reply == IF "line" \in DOMAIN th[t] THEN th[t].line
                 ELSE IF dst = "d0" THEN EcuIds[th[t].ecu] ELSE EcuFrame(th[t].ecu)
    IN  reply \o [i \in 1 .. Len(reply) |-> 238]

\* The position byte the ECU sends after the echo of an IAC command, for
\* a valve at v.pos that moves v.stride per step and stops at the ends of
\* its travel.
ValveReply(v, c) ==
    IF c = MEMS_OpenIAC
    THEN (IF v.pos + v.stride > IAC_MAXIMUM THEN IAC_MAXIMUM ELSE v.pos + v.stride)
    ELSE IF c = MEMS_CloseIAC
    THEN (IF v.pos < v.stride THEN 0 ELSE v.pos - v.stride)
    ELSE v.pos

OneBytes(t) ==
    IF "valve" \in DOMAIN th[t] /\ th[t].dst = "position"
    THEN {ValveReply(th[t].valve, th[t].cmd)}
    ELSE IF th[t].rich THEN {th[t].cmd, 0, 64} ELSE {th[t].cmd, 0}

Delivered(t, dst, q, total, n) ==
    IF q = 1 THEN {<<b>> : b \in OneBytes(t)}
    ELSE {SubSeq(Line(t, dst), total + 1, total + n)}

\* A transport access by thread t: it interleaves with another call when
\* t is in the middle of its own and the last access was not t's.
Touch(t) ==
    /\ interleaved' = (interleaved \/ (th[t].started /\ lastIO # t))
    /\ lastIO' = t

IoRec(k, fd, n, ret, bs) == [k |-> k, fd |-> fd, n |-> n, ret |-> ret, bytes |-> bs]

\* The locals of the library's functions, which no longer exist once the
\* operation has returned to the host.
Gone(t) ==
    [rvi |-> 0, rvb |-> FALSE, status |-> FALSE, cmd |-> 0, quantity |-> 0,
     total |-> 0, dst |-> "response", stack |-> <<>>,
     mem |-> [th[t].mem EXCEPT !.sc_response = <<255>>, !.response = <<255>>,
                               !.dframe = Fill(FrameSize)]]

\* Return from a function to the position on top of the stack.
Return(t, u) ==
    Set(t, u @@ [pc |-> Head(th[t].stack), stack |-> Tail(th[t].stack)])

(***************************************************************************)
(* protocol.c: mems_read_serial                                            *)
(***************************************************************************)
\* One pass of the do-while loop: bytesRead = read(info->sd, buffer_pt,
\* quantity); totalBytesRead += bytesRead; buffer_pt += bytesRead.
ReadPass(t) ==
    LET me == th[t]
        q  == me.quantity
    IN  \E r \in ReadResults(sd, q, me.total, me.rich) :
        \E bs \in (IF r > 0 THEN Delivered(t, me.dst, q, me.total, r) ELSE {<<>>}) :
            LET tot == me.total + r
                u   == [total |-> tot,
                        mem |-> [me.mem EXCEPT ![me.dst] = Store(@, me.total, bs)],
                        overrun |-> me.overrun + Beyond(me.mem[me.dst], me.total, Len(bs)),
                        io |-> IF me.rich
                               THEN Append(me.io, IoRec("r", sd, q, r, bs))
                               ELSE me.io,
                        started |-> TRUE]
            IN  /\ IF r > 0 /\ tot < q
                   THEN Set(t, u @@ [pc |-> "read_more"])
                   ELSE Return(t, u @@ [rvi |-> tot])
                /\ Touch(t)
                /\ UNCHANGED <<conn, mutex>>

\* At "read" the function is entered: the loop runs only if the device
\* is connected.  At "read_more" the loop condition held.
mems_read_serial(t) ==
    /\ th[t].pc \in {"read", "read_more"}
    /\ IF th[t].pc = "read_more" \/ mems_is_connected(sd)
       THEN ReadPass(t)
       ELSE /\ Return(t, [rvi |-> 0])
            /\ UNCHANGED <<conn, mutex, wire>>

\* The caller's side of mems_read_serial(info, dst, q): continue at ret.
CallRead(t, dst, q, ret) ==
    [pc |-> "read", stack |-> <<ret>> \o th[t].stack, dst |-> dst,
     quantity |-> q, total |-> 0]

(***************************************************************************)
(* protocol.c: mems_write_serial                                           *)
(***************************************************************************)
\* mems_write_serial without the test of mems_is_connected.
mems_write_serial_Unchecked(t) ==
    /\ th[t].pc = "write"
    /\ \E w \in WriteResults(sd, th[t].rich) :
         /\ Return(t, [rvi |-> w, started |-> TRUE,
                       io |-> IF th[t].rich
                              THEN Append(th[t].io, IoRec("w", sd, 1, w, <<th[t].cmd>>))
                              ELSE th[t].io])
         /\ Touch(t)
         /\ UNCHANGED <<conn, mutex>>

mems_write_serial(t) ==
    /\ th[t].pc = "write"
    /\ IF mems_is_connected(sd)
       THEN \E w \in WriteResults(sd, th[t].rich) :
              /\ Return(t, [rvi |-> w, started |-> TRUE,
                            io |-> IF th[t].rich
                                   THEN Append(th[t].io,
                                               IoRec("w", sd, 1, w, <<th[t].cmd>>))
                                   ELSE th[t].io])
              /\ Touch(t)
              /\ UNCHANGED <<conn, mutex>>
       ELSE /\ Return(t, [rvi |-> -1])
            /\ UNCHANGED <<conn, mutex, wire>>

(***************************************************************************)
(* protocol.c: mems_send_command                                           *)
(***************************************************************************)
\* The caller's side of mems_send_command(info, c): the function starts
\* with mems_write_serial(info, &cmd, 1).
CallSend(t, c, ret) ==
    [pc |-> "write", stack |-> <<"sc_written", ret>> \o th[t].stack, cmd |-> c,
     mem |-> [th[t].mem EXCEPT !.sc_response = <<255>>]]

\* mems_send_command without the comparison of the echo with the command.
mems_send_command_AnyEcho(t) ==
    /\ UNCHANGED <<conn, mutex, wire>>
    /\ \/ /\ th[t].pc = "sc_written"
          /\ IF th[t].rvi = 1
             THEN Set(t, CallRead(t, "sc_response", 1, "sc_read"))
             ELSE Return(t, [rvb |-> FALSE])
       \/ /\ th[t].pc = "sc_read"
          /\ Return(t, [rvb |-> (th[t].rvi = 1)])

mems_send_command(t) ==
    /\ UNCHANGED <<conn, mutex, wire>>
    /\ \/ /\ th[t].pc = "sc_written"
          /\ IF th[t].rvi = 1
             THEN Set(t, CallRead(t, "sc_response", 1, "sc_read"))
             ELSE Return(t, [rvb |-> FALSE])
       \/ /\ th[t].pc = "sc_read"
          /\ IF th[t].rvi = 1
             THEN Return(t, [rvb |-> (th[t].mem.sc_response[1] = th[t].cmd)])
             ELSE Return(t, [rvb |-> FALSE])

(***************************************************************************)
(* protocol.c: mems_lock, mems_unlock                                      *)
(***************************************************************************)
\* pthread_mutex_lock(&info->mutex) returns once the mutex is free.
mems_lock(t) ==
    /\ th[t].pc = "lock"
    /\ mutex = NoThread
    /\ mutex' = t
    /\ Set(t, [pc |-> "locked"])
    /\ UNCHANGED <<conn, wire>>

\* mems_unlock reached on the success path only: a failed operation
\* returns with the mutex held.
mems_unlock_OnSuccess(t) ==
    /\ th[t].pc = "unlock"
    /\ mutex' = IF th[t].status THEN NoThread ELSE mutex
    /\ Set(t, [pc |-> "ret", result |-> th[t].status] @@ Gone(t))
    /\ UNCHANGED <<conn, wire>>

\* mems_unlock that returns the operation's status without releasing the
\* mutex.
mems_unlock_Keeps(t) ==
    /\ th[t].pc = "unlock"
    /\ Set(t, [pc |-> "ret", result |-> th[t].status] @@ Gone(t))
    /\ UNCHANGED <<conn, mutex, wire>>

\* pthread_mutex_unlock(&info->mutex), followed by the return of the
\* operation's status.
mems_unlock(t) ==
    /\ th[t].pc = "unlock"
    /\ mutex' = NoThread
    /\ Set(t, [pc |-> "ret", result |-> th[t].status] @@ Gone(t))
    /\ UNCHANGED <<conn, wire>>

(***************************************************************************)
(* protocol.c: temperature_value_to_degrees_f, kpa_to_psi, frame decode    *)
(***************************************************************************)
\* Conversion of a non-negative float to uint8_t: the integral part when
\* it fits; undefined otherwise, where builds give the low 8 bits of the
\* integral part or the saturated value.
ToUint8(x) == IF x < 256 THEN {x} ELSE {x % 256, 255}

\* degrees_c = val - 55 in uint8_t; (uint8_t)((float)degrees_c * 1.8 + 32).
\* The values the function can return.
temperature_value_to_degrees_f(val) ==
    LET degrees_c == (val - 55) % 256
    IN  ToUint8((degrees_c * 18 + 320) \div 10)

\* (float)kpa / 6.89475729, in thousandths of a psi.
kpa_to_psi(kpa) == (kpa * 1000000) \div 6894757

BitSet(b, mask) == (b \div mask) % 2 = 1

\* The two bytes of the engine speed taken in the other order.
engine_rpm_LoFirst(hi, lo) == lo * 256 + hi

\* ((uint16_t)dframe.engine_rpm_hi << 8) | dframe.engine_rpm_lo
engine_rpm(hi, lo) == hi * 256 + lo

\* The fault mask with the throttle pot fault taken from bit 6 of dtc1.
fault_codes_Bit6(dtc0, dtc1) ==
      (IF BitSet(dtc0, 1) THEN 1 ELSE 0) + (IF BitSet(dtc0, 2) THEN 2 ELSE 0)
    + (IF BitSet(dtc1, 2) THEN 4 ELSE 0) + (IF BitSet(dtc1, 64) THEN 8 ELSE 0)

\* data->fault_codes = 0, then |= (1 << n) for each of the four tests.
fault_codes(dtc0, dtc1) ==
      (IF BitSet(dtc0, 1) THEN 1 ELSE 0) + (IF BitSet(dtc0, 2) THEN 2 ELSE 0)
    + (IF BitSet(dtc1, 2) THEN 4 ELSE 0) + (IF BitSet(dtc1, 128) THEN 8 ELSE 0)

\* The assignments of mems_read to *data from the frame dframe; the
\* fields of the frame are numbered from 1.  The snapshots the assignments
\* can leave in *data.
Decode(data, dframe) ==
    {[data EXCEPT
        !.engine_rpm           = engine_rpm(dframe[2], dframe[3]),
        !.coolant_temp_f       = coolant,
        !.ambient_temp_f       = ambient,
        !.intake_air_temp_f    = intake,
        !.map_psi              = kpa_to_psi(dframe[8]),
        !.battery_voltage      = dframe[9] * 100,
        !.throttle_pot_voltage = dframe[10] * 20,
        !.idle_switch          = IF dframe[11] = 0 THEN 0 ELSE 1,
        !.park_neutral_switch  = IF dframe[13] = 0 THEN 0 ELSE 1,
        !.fault_codes          = fault_codes(dframe[14], dframe[15]),
        !.iac_position         = dframe[19]] :
     coolant \in temperature_value_to_degrees_f(dframe[4]),
     ambient \in temperature_value_to_degrees_f(dframe[5]),
     intake  \in temperature_value_to_degrees_f(dframe[6])}

(***************************************************************************)
(* protocol.c: mems_init_link                                              *)
(***************************************************************************)
\* return false / return true of an operation that holds no mutex.
Finish(t, b) == Set(t, [pc |-> "ret", result |-> b] @@ Gone(t))

\* mems_init_link without the read of the byte that follows the echo of
\* the heartbeat command.
mems_init_link_NoNull(t) ==
    /\ th[t].op = "mems_init_link"
    /\ UNCHANGED <<conn, mutex, wire>>
    /\ \/ /\ th[t].pc = "il_a"
          /\ IF ~th[t].rvb THEN Finish(t, FALSE)
             ELSE Set(t, CallSend(t, command_b, "il_b"))
       \/ /\ th[t].pc = "il_b"
          /\ IF ~th[t].rvb THEN Finish(t, FALSE)
             ELSE Set(t, CallSend(t, command_c, "il_c"))
       \/ /\ th[t].pc = "il_c"
          /\ IF ~th[t].rvb THEN Finish(t, FALSE)
             ELSE Set(t, CallSend(t, command_d, "il_d"))
       \/ /\ th[t].pc = "il_d"
          /\ IF ~th[t].rvb THEN Finish(t, FALSE)
             ELSE Set(t, CallRead(t, "d0", D0Size, "il_id"))
       \/ /\ th[t].pc = "il_id"
          /\ Finish(t, th[t].rvi = D0Size)

\* mems_init_link that goes on to 0x75 when 0xCA was not echoed, and
\* reports that failure at the end.
mems_init_link_GoesOn(t) ==
    /\ th[t].op = "mems_init_link"
    /\ UNCHANGED <<conn, mutex, wire>>
    /\ \/ /\ th[t].pc = "il_a"
          /\ Set(t, CallSend(t, command_b, "il_b") @@ [status |-> th[t].rvb])
       \/ /\ th[t].pc = "il_b"
          /\ IF ~th[t].rvb THEN Finish(t, FALSE)
             ELSE Set(t, CallSend(t, command_c, "il_c"))
       \/ /\ th[t].pc = "il_c"
          /\ IF ~th[t].rvb THEN Finish(t, FALSE)
             ELSE Set(t, CallRead(t, "response", 1, "il_null"))
       \/ /\ th[t].pc = "il_null"
          /\ IF th[t].rvi # 1 THEN Finish(t, FALSE)
             ELSE Set(t, CallSend(t, command_d, "il_d"))
       \/ /\ th[t].pc = "il_d"
          /\ IF ~th[t].rvb THEN Finish(t, FALSE)
             ELSE Set(t, CallRead(t, "d0", D0Size, "il_id"))
       \/ /\ th[t].pc = "il_id"
          /\ Finish(t, th[t].status /\ th[t].rvi = D0Size)

mems_init_link(t) ==
    /\ th[t].op = "mems_init_link"
    /\ UNCHANGED <<conn, mutex, wire>>
    /\ \/ /\ th[t].pc = "il_a"
          /\ IF ~th[t].rvb THEN Finish(t, FALSE)
             ELSE Set(t, CallSend(t, command_b, "il_b"))
       \/ /\ th[t].pc = "il_b"
          /\ IF ~th[t].rvb THEN Finish(t, FALSE)
             ELSE Set(t, CallSend(t, command_c, "il_c"))
       \/ /\ th[t].pc = "il_c"
          /\ IF ~th[t].rvb THEN Finish(t, FALSE)
             ELSE Set(t, CallRead(t, "response", 1, "il_null"))
       \/ /\ th[t].pc = "il_null"
          /\ IF th[t].rvi # 1 THEN Finish(t, FALSE)
             ELSE Set(t, CallSend(t, command_d, "il_d"))
       \/ /\ th[t].pc = "il_d"
          /\ IF ~th[t].rvb THEN Finish(t, FALSE)
             ELSE Set(t, CallRead(t, "d0", D0Size, "il_id"))
       \/ /\ th[t].pc = "il_id"
          /\ Finish(t, th[t].rvi = D0Size)

(***************************************************************************)
(* protocol.c: mems_read_raw, mems_read                                    *)
(***************************************************************************)
mems_read_raw(t) ==
    /\ th[t].op = "mems_read_raw"
    /\ UNCHANGED <<conn, mutex, wire>>
    /\ \/ /\ th[t].pc = "locked"
          /\ Set(t, CallSend(t, MEMS_ReqData, "cmd_done") @@ [status |-> FALSE])
       \/ /\ th[t].pc = "cmd_done"
          /\ IF th[t].rvb
             THEN Set(t, CallRead(t, "frame", FrameSize, "frame_done"))
             ELSE Set(t, [pc |-> "unlock"])
       \/ /\ th[t].pc = "frame_done"
          /\ Set(t, [pc |-> "unlock", status |-> (th[t].rvi = FrameSize)])

\* mems_read that fills *data from whatever the frame buffer holds and
\* checks the size of the frame afterwards.
mems_read_DecodeFirst(t) ==
    /\ th[t].op = "mems_read"
    /\ UNCHANGED <<conn, mutex, wire>>
    /\ \/ /\ th[t].pc = "locked"
          /\ Set(t, CallSend(t, MEMS_ReqData, "cmd_done") @@ [status |-> FALSE])
       \/ /\ th[t].pc = "cmd_done"
          /\ IF th[t].rvb
             THEN Set(t, CallRead(t, "dframe", FrameSize, "frame_done"))
             ELSE Set(t, [pc |-> "unlock"])
       \/ /\ th[t].pc = "frame_done"
          /\ \E d \in Decode(th[t].data, th[t].mem.dframe) :
               Set(t, [pc |-> "unlock", status |-> (th[t].rvi = FrameSize),
                       data |-> d])

\* What mems_read does with the result of the read of the frame.
mems_read_frame(t) ==
    /\ th[t].op = "mems_read"
    /\ th[t].pc = "frame_done"
    /\ UNCHANGED <<conn, mutex, wire>>
    /\ IF th[t].rvi = FrameSize
       THEN \E d \in Decode(th[t].data, th[t].mem.dframe) :
              Set(t, [pc |-> "unlock", status |-> TRUE, data |-> d])
       ELSE Set(t, [pc |-> "unlock"])

mems_read(t) ==
    /\ th[t].op = "mems_read"
    /\ \/ /\ th[t].pc = "locked"
          /\ Set(t, CallSend(t, MEMS_ReqData, "cmd_done") @@ [status |-> FALSE])
          /\ UNCHANGED <<conn, mutex, wire>>
       \/ /\ th[t].pc = "cmd_done"
          /\ IF th[t].rvb
             THEN Set(t, CallRead(t, "dframe", FrameSize, "frame_done"))
             ELSE Set(t, [pc |-> "unlock"])
          /\ UNCHANGED <<conn, mutex, wire>>
       \/ mems_read_frame(t)

(***************************************************************************)
(* protocol.c: the single-command operations                               *)
(***************************************************************************)
\* The two calls made one after the other, without the && that skips the
\* read when the command was not echoed.
Command_ReadAnyway(t, c, dst) ==
    /\ UNCHANGED <<conn, mutex, wire>>
    /\ \/ /\ th[t].pc = "locked"
          /\ Set(t, CallSend(t, c, "cmd_done") @@ [status |-> FALSE])
       \/ /\ th[t].pc = "cmd_done"
          /\ Set(t, CallRead(t, dst, 1, "trail_done") @@ [status |-> th[t].rvb])
       \/ /\ th[t].pc = "trail_done"
          /\ Set(t, [pc |-> "unlock", status |-> (th[t].status /\ th[t].rvi = 1)])

\* status = mems_send_command(info, cmd) &&
\*          (mems_read_serial(info, dst, 1) == 1);
\* between mems_lock and mems_unlock.
Command(t, c, dst) ==
    /\ UNCHANGED <<conn, mutex, wire>>
    /\ \/ /\ th[t].pc = "locked"
          /\ Set(t, CallSend(t, c, "cmd_done") @@ [status |-> FALSE])
       \/ /\ th[t].pc = "cmd_done"
          /\ IF th[t].rvb
             THEN Set(t, CallRead(t, dst, 1, "trail_done"))
             ELSE Set(t, [pc |-> "unlock", status |-> FALSE])
       \/ /\ th[t].pc = "trail_done"
          /\ Set(t, [pc |-> "unlock", status |-> (th[t].rvi = 1)])

mems_fuel_pump_control(t) ==
    /\ th[t].op = "mems_fuel_pump_control"
    /\ Command(t, IF th[t].arg THEN MEMS_FuelPumpOn ELSE MEMS_FuelPumpOff, "response")

mems_ptc_relay_control(t) ==
    /\ th[t].op = "mems_ptc_relay_control"
    /\ Command(t, IF th[t].arg THEN MEMS_PTCRelayOn ELSE MEMS_PTCRelayOff, "response")

mems_ac_relay_control(t) ==
    /\ th[t].op = "mems_ac_relay_control"
    /\ Command(t, IF th[t].arg THEN MEMS_ACRelayOn ELSE MEMS_ACRelayOff, "response")

mems_test_injectors(t) ==
    /\ th[t].op = "mems_test_injectors"
    /\ Command(t, MEMS_TestInjectors, "response")

mems_test_coil(t) ==
    /\ th[t].op = "mems_test_coil"
    /\ Command(t, MEMS_FireCoil, "response")

mems_read_iac_position(t) ==
    /\ th[t].op = "mems_read_iac_position"
    /\ Command(t, MEMS_GetIACPosition, "position")

mems_move_idle_bypass_motor(t) ==
    /\ th[t].op = "mems_move_idle_bypass_motor"
    /\ Command(t, IF th[t].arg THEN MEMS_CloseIAC ELSE MEMS_OpenIAC, "position")

mems_heartbeat(t) ==
    /\ th[t].op = "mems_heartbeat"
    /\ Command(t, MEMS_Heartbeat, "response")

\* As Command, but the block after the assignment sets status = true
\* whatever the two calls returned.
mems_clear_faults(t) ==
    /\ th[t].op = "mems_clear_faults"
    /\ UNCHANGED <<conn, mutex, wire>>
    /\ \/ /\ th[t].pc = "locked"
          /\ Set(t, CallSend(t, MEMS_ClearFaults, "cmd_done") @@ [status |-> FALSE])
       \/ /\ th[t].pc = "cmd_done"
          /\ IF th[t].rvb
             THEN Set(t, CallRead(t, "response", 1, "trail_done"))
             ELSE Set(t, [pc |-> "unlock", status |-> TRUE])
       \/ /\ th[t].pc = "trail_done"
          /\ Set(t, [pc |-> "unlock", status |-> TRUE])

(***************************************************************************)
(* setup.c: mems_openserial, mems_connect, mems_disconnect                 *)
(***************************************************************************)
\* close(fd): the descriptor is no longer open, whether or not it was.
Close(fd) ==
    /\ osOpen' = osOpen \ {fd}
    /\ closes' = closes + 1

\* What can go wrong while the opened device is configured.
ConfigResults == {"ok", "tcgetattr", "tcflush_tcsetattr"}

\* The descriptor open() returns when it succeeds: one that is not open.
NewFd == IF SerialFd \in osOpen THEN SerialFd + 1 ELSE SerialFd

mems_openserial(t) ==
    /\ UNCHANGED <<mutex, wire>>
    /\ \/ /\ th[t].pc = "open"
          \* info->sd = open(devPath, O_RDWR | O_NOCTTY)
          /\ \E fd \in {-1, NewFd} :
               /\ sd' = fd
               /\ IF fd > 0
                  THEN /\ osOpen' = osOpen \cup {fd}
                       /\ closes' = 0
                       /\ Set(t, [pc |-> "configure"])
                  ELSE /\ UNCHANGED <<osOpen, closes>>
                       /\ Return(t, [rvb |-> FALSE])
       \/ /\ th[t].pc = "configure"
          /\ \E c \in ConfigResults :
               /\ sd' = sd
               /\ IF c = "ok"
                  THEN UNCHANGED <<osOpen, closes>>
                  ELSE IF c = "tcgetattr"
                  THEN Close(sd)
                  ELSE \* closed where tcflush/tcsetattr failed, and again
                       \* because retVal is false
                       /\ osOpen' = osOpen \ {sd}
                       /\ closes' = closes + 2
               /\ Return(t, [rvb |-> (c = "ok")])

\* mems_connect that opens the device whether or not it is connected.
mems_connect_Reopens(t) ==
    /\ th[t].op = "mems_connect"
    /\ UNCHANGED <<conn, mutex, wire>>
    /\ \/ /\ th[t].pc = "locked"
          /\ Set(t, [pc |-> "open", stack |-> <<"opened">> \o th[t].stack])
       \/ /\ th[t].pc = "opened"
          /\ Set(t, [pc |-> "unlock", status |-> th[t].rvb])

mems_connect(t) ==
    /\ th[t].op = "mems_connect"
    /\ UNCHANGED <<conn, mutex, wire>>
    /\ \/ /\ th[t].pc = "locked"
          /\ IF mems_is_connected(sd)
             THEN Set(t, [pc |-> "unlock", status |-> TRUE])
             ELSE Set(t, [pc |-> "open", stack |-> <<"opened">> \o th[t].stack])
       \/ /\ th[t].pc = "opened"
          /\ Set(t, [pc |-> "unlock", status |-> th[t].rvb])

mems_disconnect(t) ==
    /\ th[t].op = "mems_disconnect"
    /\ th[t].pc = "locked"
    /\ IF mems_is_connected(sd)
       THEN /\ Close(sd)
            /\ sd' = 0
       ELSE UNCHANGED conn
    /\ Set(t, [pc |-> "unlock", status |-> TRUE])
    /\ UNCHANGED <<mutex, wire>>

\* mems_cleanup takes no mutex: it closes the device if connected and
\* destroys the mutex; the connection is not used afterwards.
mems_cleanup(t) ==
    /\ th[t].op = "mems_cleanup"
    /\ th[t].pc = "cleanup"
    /\ IF mems_is_connected(sd)
       THEN /\ Close(sd)
            /\ sd' = 0
       ELSE UNCHANGED conn
    /\ Set(t, [pc |-> "end"])
    /\ UNCHANGED <<mutex, wire>>

(***************************************************************************)
(* The WIN32 build: setup.c and protocol.c under #if defined(WIN32).       *)
(***************************************************************************)
\* The value of info->sd that stands for no handle.
INVALID_HANDLE_VALUE == -1

mems_is_connected_WIN32(s) == s # INVALID_HANDLE_VALUE

\* WaitForSingleObject(info->mutex, INFINITE) returns WAIT_OBJECT_0 when
\* the mutex is owned by no thread or by the calling thread, whose
\* ownership count (held) then grows by one.
mems_lock_WIN32(t) ==
    /\ th[t].pc = "lock"
    /\ mutex \in {NoThread, t}
    /\ mutex' = t
    /\ Set(t, [pc |-> "locked", held |-> th[t].held + 1])
    /\ UNCHANGED <<conn, wire>>

\* ReleaseMutex(info->mutex) takes one from the ownership count of the
\* calling thread; the mutex is free when the count is zero.  It fails
\* without effect when the caller is not the owner.
mems_unlock_WIN32(t) ==
    /\ th[t].pc = "unlock"
    /\ LET h == IF mutex = t THEN th[t].held - 1 ELSE th[t].held
       IN  /\ mutex' = IF mutex = t /\ h = 0 THEN NoThread ELSE mutex
           /\ Set(t, [pc |-> "ret", result |-> th[t].status, held |-> h] @@ Gone(t))
    /\ UNCHANGED <<conn, wire>>

\* CreateFile, then GetCommState, SetCommState, GetCommTimeouts and
\* SetCommTimeouts; CloseHandle if one of them failed.
mems_openserial_WIN32(t) ==
    /\ UNCHANGED <<mutex, wire>>
    /\ \/ /\ th[t].pc = "open"
          /\ \E h \in {INVALID_HANDLE_VALUE, NewFd} :
               /\ sd' = h
               /\ IF h # INVALID_HANDLE_VALUE
                  THEN /\ osOpen' = osOpen \cup {h}
                       /\ closes' = 0
                       /\ Set(t, [pc |-> "configure"])
                  ELSE /\ UNCHANGED <<osOpen, closes>>
                       /\ Return(t, [rvb |-> FALSE])
       \/ /\ th[t].pc = "configure"
          /\ \E configured \in BOOLEAN :
               /\ sd' = sd
               /\ IF configured THEN UNCHANGED <<osOpen, closes>> ELSE Close(sd)
               /\ Return(t, [rvb |-> configured])

mems_connect_WIN32(t) ==
    /\ th[t].op = "mems_connect"
    /\ UNCHANGED <<conn, mutex, wire>>
    /\ \/ /\ th[t].pc = "locked"
          /\ IF mems_is_connected_WIN32(sd)
             THEN Set(t, [pc |-> "unlock", status |-> TRUE])
             ELSE Set(t, [pc |-> "open", stack |-> <<"opened">> \o th[t].stack])
       \/ /\ th[t].pc = "opened"
          /\ Set(t, [pc |-> "unlock", status |-> th[t].rvb])

mems_disconnect_WIN32(t) ==
    /\ th[t].op = "mems_disconnect"
    /\ th[t].pc = "locked"
    /\ IF mems_is_connected_WIN32(sd)
       THEN /\ Close(sd)
            /\ sd' = INVALID_HANDLE_VALUE
       ELSE UNCHANGED conn
    /\ Set(t, [pc |-> "unlock", status |-> TRUE])
    /\ UNCHANGED <<mutex, wire>>

(***************************************************************************)
(* The host program: a thread calls an operation of the library.           *)
(***************************************************************************)
BoolOps ==
    {"mems_fuel_pump_control", "mems_ptc_relay_control", "mems_ac_relay_control",
     "mems_move_idle_bypass_motor"}

\* The operations that take the mutex.
GuardedOps ==
    BoolOps \cup
    {"mems_read", "mems_read_raw", "mems_test_injectors", "mems_test_coil",
     "mems_read_iac_position", "mems_clear_faults", "mems_heartbeat",
     "mems_connect", "mems_disconnect"}

Ops == GuardedOps \cup {"mems_init_link"}

\* Thread t calls operation o with argument a while the ECU answers as e.
\* A guarded operation starts with mems_lock, mems_init_link with
\* mems_send_command(info, command_a).
Enter(t, o, a, e, rich) ==
    LET u == [op |-> o, arg |-> a, ecu |-> e, rich |-> rich,
              calls |-> th[t].calls + 1, io |-> <<>>, started |-> FALSE,
              overrun |-> 0, old |-> [data |-> th[t].data, mem |-> th[t].mem]]
    IN  /\ Set(t, IF o = "mems_init_link"
                  THEN CallSend(t, command_a, "il_a") @@ u
                  ELSE u @@ [pc |-> "lock"])
        /\ UNCHANGED <<conn, mutex, wire>>

Call(t) ==
    /\ th[t].pc \in {"idle", "ret"}
    /\ th[t].calls < MaxCalls
    /\ \E o \in Ops, a \in BOOLEAN, e \in Ecus :
         /\ a \/ o \in BoolOps
         /\ Enter(t, o, a, e, TRUE)

CallMT(t) ==
    /\ th[t].pc \in {"idle", "ret"}
    /\ th[t].calls < MaxCallsMT
    /\ \E o \in Ops, a \in BOOLEAN :
         /\ a \/ o \in BoolOps
         /\ Enter(t, o, a, 1, FALSE)

Step(t) ==
    \/ mems_lock(t)
    \/ mems_unlock(t)
    \/ mems_write_serial(t)
    \/ mems_read_serial(t)
    \/ mems_send_command(t)
    \/ mems_init_link(t)
    \/ mems_read_raw(t)
    \/ mems_read(t)
    \/ mems_fuel_pump_control(t)
    \/ mems_ptc_relay_control(t)
    \/ mems_ac_relay_control(t)
    \/ mems_test_injectors(t)
    \/ mems_test_coil(t)
    \/ mems_read_iac_position(t)
    \/ mems_move_idle_bypass_motor(t)
    \/ mems_clear_faults(t)
    \/ mems_heartbeat(t)
    \/ mems_openserial(t)
    \/ mems_connect(t)
    \/ mems_disconnect(t)

\* A single-threaded host: one thread calls the library.
Next == Call(Main) \/ Step(Main)

Spec == Init /\ [][Next]_vars

\* A multi-threaded host: the threads share the connection.
NextMT == \E t \in Threads : CallMT(t) \/ Step(t)

SpecMT == Init /\ [][NextMT]_vars

\* A host in which one thread calls any operation while the other sends
\* heartbeats.
CallFair(t) ==
    /\ th[t].pc \in {"idle", "ret"}
    /\ th[t].calls < MaxCallsMT
    /\ \E o \in (IF t = Main THEN Ops ELSE {"mems_heartbeat"}), a \in BOOLEAN :
         /\ a \/ o \in BoolOps
         /\ Enter(t, o, a, 1, FALSE)

NextFair == \E t \in Threads : CallFair(t) \/ Step(t)

\* Every system call returns, so that a thread inside the library takes
\* its next step, and the mutex is granted fairly: a thread that waits for
\* it while it is released again and again eventually gets it.
FairMT ==
    /\ Init
    /\ [][NextFair]_vars
    /\ \A t \in Threads : WF_vars(Step(t)) /\ SF_vars(mems_lock(t))

\* mems_send_command(info, c) called on its own, for every command byte.
InitCmd ==
    /\ sd \in {-1, 0, SerialFd}
    /\ osOpen = IF sd = SerialFd THEN {SerialFd} ELSE {}
    /\ closes = 0
    /\ mutex = NoThread
    /\ lastIO = NoThread
    /\ interleaved = FALSE
    /\ \E c \in Byte :
         th = [t \in Threads |->
                 IF t = Main
                 THEN Merge(InitThread,
                            [op |-> "mems_send_command", pc |-> "write", cmd |-> c,
                             arg |-> c, stack |-> <<"sc_written", "ret">>, calls |-> 1])
                 ELSE InitThread]

NextCmd ==
    \/ mems_write_serial(Main)
    \/ mems_read_serial(Main)
    \/ mems_send_command(Main)

SpecCmd == InitCmd /\ [][NextCmd]_vars

(***************************************************************************)
(* The WIN32 build: two threads connect and disconnect.                    *)
(***************************************************************************)
MaxWinCalls == 3

\* mems_init on WIN32, called by thread Main: no handle, and
\* CreateMutex(NULL, TRUE, NULL) makes the calling thread the owner of the
\* new mutex, with an ownership count of one.
mems_init_WIN32 ==
    /\ sd = INVALID_HANDLE_VALUE
    /\ osOpen = {}
    /\ closes = 0
    /\ mutex = Main
    /\ lastIO = NoThread
    /\ interleaved = FALSE
    /\ th = [t \in Threads |->
               [held |-> IF t = Main THEN 1 ELSE 0, rich |-> FALSE] @@ InitThread]

CallWin(t) ==
    /\ th[t].pc \in {"idle", "ret"}
    /\ th[t].calls < MaxWinCalls
    /\ \E o \in {"mems_connect", "mems_disconnect"}, devPath \in BOOLEAN :
         /\ devPath \/ o = "mems_connect"
         /\ Enter(t, o, devPath, 1, FALSE)

StepWin(t) ==
    \/ mems_lock_WIN32(t)
    \/ mems_unlock_WIN32(t)
    \/ mems_openserial_WIN32(t)
    \/ mems_connect_WIN32(t)
    \/ mems_disconnect_WIN32(t)

NextWin == \E t \in Threads : CallWin(t) \/ StepWin(t)

\* A thread inside the library takes its next step, and a thread that
\* waits for the mutex while it is free again and again eventually gets it.
FairWin ==
    /\ mems_init_WIN32
    /\ [][NextWin]_vars
    /\ \A t \in Threads : WF_vars(StepWin(t)) /\ SF_vars(mems_lock_WIN32(t))

\* The buffers mems_read_serial is called with, and their sizes.
ReadBuffers == {"response", "d0", "dframe"}

\* mems_read_serial(info, buffer, quantity) called on its own, with the
\* connection never opened, closed again, or open.
InitRead ==
    /\ sd \in {-1, 0, SerialFd}
    /\ osOpen = IF sd = SerialFd THEN {SerialFd} ELSE {}
    /\ closes = 0
    /\ mutex = NoThread
    /\ lastIO = NoThread
    /\ interleaved = FALSE
    /\ \E b \in ReadBuffers, e \in Ecus :
         th = [t \in Threads |->
                 IF t = Main
                 THEN Merge(InitThread,
                            [op |-> "mems_read_serial", pc |-> "read",
                             stack |-> <<"ret">>, calls |-> 1, ecu |-> e,
                             dst |-> b, quantity |-> Len(NoMem[b]), total |-> 0])
                 ELSE InitThread]

NextRead == mems_read_serial(Main)

SpecRead == InitRead /\ [][NextRead]_vars

(***************************************************************************)
(* The decode of mems_read, for every pair of bytes a frame can carry.     *)
(***************************************************************************)
\* The frame with the bytes a and b as engine speed (hi, lo) and as dtc0
\* and dtc1, and a as coolant temperature; the other bytes are those of
\* EcuFrame(1).
FrameOf(a, b) ==
    [i \in 1 .. FrameSize |->
        IF i \in {2, 4, 14} THEN a
        ELSE IF i \in {3, 15} THEN b
        ELSE EcuFrame(1)[i]]

\* What the caller's mems_data holds before the call.
Priors == {NoData, [f \in DOMAIN NoData |-> 9]}

\* mems_read has taken the mutex, 0x80 has been echoed and the frame is
\* about to be read.
InitDecode ==
    /\ sd = SerialFd
    /\ osOpen = {SerialFd}
    /\ closes = 0
    /\ mutex = Main
    /\ lastIO = Main
    /\ interleaved = FALSE
    /\ \E a \in Byte, b \in Byte, prior \in Priors :
         th = [t \in Threads |->
                 IF t = Main
                 THEN [line |-> FrameOf(a, b)]
                      @@ Merge(InitThread,
                               [op |-> "mems_read", pc |-> "read", dst |-> "dframe",
                                stack |-> <<"frame_done">>, quantity |-> FrameSize,
                                calls |-> 1, started |-> TRUE, rich |-> FALSE,
                                data |-> prior,
                                old |-> [data |-> prior, mem |-> NoMem]])
                 ELSE InitThread]

NextDecode ==
    \/ mems_read_serial(Main)
    \/ mems_read_frame(Main)
    \/ mems_unlock(Main)

SpecDecode == InitDecode /\ [][NextDecode]_vars

(***************************************************************************)
(* A host that connects and disconnects.                                   *)
(***************************************************************************)
MaxConnCalls == 4

\* After mems_init: nothing is open.
InitConn ==
    /\ sd = 0
    /\ osOpen = {}
    /\ closes = 0
    /\ mutex = NoThread
    /\ lastIO = NoThread
    /\ interleaved = FALSE
    /\ th = [t \in Threads |->
               IF t = Main
               THEN [sd0 |-> 0, open0 |-> {}, closes0 |-> 0] @@ InitThread
               ELSE InitThread]

ConnOps == {"mems_connect", "mems_disconnect", "mems_heartbeat", "mems_cleanup"}

\* mems_connect(info, devPath) for one of two paths, mems_disconnect(info),
\* mems_heartbeat(info) or, last, mems_cleanup(info); sd0, open0 and
\* closes0 keep info->sd, the open descriptors and the number of close()
\* calls as they are when the call is made.
CallConn(t) ==
    /\ th[t].pc \in {"idle", "ret"}
    /\ th[t].calls < MaxConnCalls
    /\ \E o \in ConnOps, devPath \in BOOLEAN :
         /\ devPath \/ o = "mems_connect"
         /\ Set(t, [op |-> o, arg |-> devPath,
                    pc |-> IF o = "mems_cleanup" THEN "cleanup" ELSE "lock",
                    calls |-> th[t].calls + 1, io |-> <<>>, started |-> FALSE,
                    sd0 |-> sd, open0 |-> osOpen, closes0 |-> closes])
    /\ UNCHANGED <<conn, mutex, wire>>

NextConn ==
    \/ CallConn(Main)
    \/ mems_lock(Main)
    \/ mems_unlock(Main)
    \/ mems_openserial(Main)
    \/ mems_connect(Main)
    \/ mems_disconnect(Main)
    \/ mems_cleanup(Main)
    \/ mems_write_serial(Main)
    \/ mems_read_serial(Main)
    \/ mems_send_command(Main)
    \/ mems_heartbeat(Main)

SpecConn == InitConn /\ [][NextConn]_vars

(***************************************************************************)
(* Two calls of mems_read, each with a mems_data of its own.               *)
(***************************************************************************)
InitPure ==
    /\ sd = SerialFd
    /\ osOpen = {SerialFd}
    /\ closes = 0
    /\ mutex = NoThread
    /\ lastIO = NoThread
    /\ interleaved = FALSE
    /\ \E prior \in [Threads -> Priors], e \in [Threads -> Ecus] :
         th = [t \in Threads |->
                 Merge(InitThread,
                       [op |-> "mems_read", pc |-> "lock", calls |-> 1,
                        rich |-> FALSE, ecu |-> e[t], data |-> prior[t],
                        old |-> [data |-> prior[t], mem |-> NoMem]])]

NextPure ==
    \E t \in Threads :
        \/ mems_lock(t)
        \/ mems_unlock(t)
        \/ mems_write_serial(t)
        \/ mems_read_serial(t)
        \/ mems_send_command(t)
        \/ mems_read(t)

SpecPure == InitPure /\ [][NextPure]_vars

(***************************************************************************)
(* mems_move_iac (declared in memsinjection.h and rosco.h): the actuator   *)
(* convergence controller, on top of mems_read_iac_position and            *)
(* mems_move_idle_bypass_motor.                                            *)
(***************************************************************************)
IacAttempts == 300

\* Valves and targets the controller is run with.
Starts  == {32, 64, 180}
Targets == {32, 64, 200}
Strides == {0, 16}

\* A controller that steps whatever the position query returned.
IacNoAction_Never(current, target) == FALSE

\* No action is needed: the valve is at the target, or has to open and is
\* at the end of its travel.
IacNoAction(current, target) ==
    current = target \/ (target > current /\ current = IAC_MAXIMUM)

\* A loop whose counter is compared after one step too many.
IacGoesOn_OneMore(attempts) == attempts <= IacAttempts

\* The loop goes on after a step that did not reach the target.
IacGoesOn(attempts) == attempts < IacAttempts

\* A result that counts "no action needed" as success.
IacResult_Satisfied(current, target) ==
    current = target \/ (target > current /\ current = IAC_MAXIMUM)

\* The result: the last observed position equals the target.
IacResult(current, target) == current = target

\* The call of a guarded operation o(info, a, ...) by the controller.
IacCall(t, o, a) ==
    [op |-> o, arg |-> a, pc |-> "lock", calls |-> th[t].calls + 1,
     started |-> FALSE]

\* Return of the controller with result b.
IacDone(b) == [iacpc |-> "done", iacresult |-> b, op |-> "mems_move_iac"]

\* The n-th step command of the call.
IacStep(t, close, n) ==
    IacCall(t, "mems_move_idle_bypass_motor", close)
    @@ [iacpc |-> "step", attempts |-> n, steps |-> th[t].steps + 1]

mems_move_iac(t) ==
    /\ UNCHANGED <<conn, mutex, wire>>
    /\ \/ /\ th[t].iacpc = "start"
          /\ Set(t, IacCall(t, "mems_read_iac_position", TRUE) @@ [iacpc |-> "query"])
       \/ /\ th[t].iacpc = "query"
          /\ th[t].pc = "ret"
          /\ LET current == th[t].mem.position[1]
                 target  == th[t].desired_pos
             IN  IF ~th[t].result
                 THEN Set(t, IacDone(FALSE))
                 ELSE IF IacNoAction(current, target)
                 THEN Set(t, IacDone(IacResult(current, target))
                             @@ [observed |-> current])
                 ELSE Set(t, IacStep(t, ~(target > current), 1)
                             @@ [observed |-> current])
       \/ /\ th[t].iacpc = "step"
          /\ th[t].pc = "ret"
          /\ LET current == th[t].mem.position[1]
                 target  == th[t].desired_pos
                 moved   == [valve |-> [th[t].valve EXCEPT !.pos = current],
                             observed |-> current]
             IN  IF ~th[t].result
                 THEN Set(t, IacDone(IacResult(current, target)))
                 ELSE IF current = target \/ ~IacGoesOn(th[t].attempts)
                 THEN Set(t, IacDone(IacResult(current, target)) @@ moved)
                 ELSE Set(t, IacStep(t, th[t].arg, th[t].attempts + 1) @@ moved)

\* The controller is called with the link open, for each valve and target.
InitIac ==
    /\ sd = SerialFd
    /\ osOpen = {SerialFd}
    /\ closes = 0
    /\ mutex = NoThread
    /\ lastIO = NoThread
    /\ interleaved = FALSE
    /\ \E p \in Starts, target \in Targets, stride \in Strides :
         th = [t \in Threads |->
                 IF t = Main
                 THEN [iacpc |-> "start", iacresult |-> FALSE, desired_pos |-> target,
                       attempts |-> 0, steps |-> 0, start |-> p, observed |-> -1,
                       valve |-> [pos |-> p, stride |-> stride]]
                      @@ Merge(InitThread, [rich |-> FALSE])
                 ELSE InitThread]

NextIac ==
    \/ mems_move_iac(Main)
    \/ mems_lock(Main)
    \/ mems_unlock(Main)
    \/ mems_write_serial(Main)
    \/ mems_read_serial(Main)
    \/ mems_send_command(Main)
    \/ mems_read_iac_position(Main)
    \/ mems_move_idle_bypass_motor(Main)

SpecIac == InitIac /\ [][NextIac]_vars

(***************************************************************************)
(* Properties.                                                             *)
(***************************************************************************)
Returned(t, o) == th[t].pc = "ret" /\ th[t].op = o

\* Entry e of a call's record of system calls.
WroteByte(e, b) == e.k = "w" /\ e.n = 1 /\ e.ret = 1 /\ e.bytes = <<b>>
ReadOne(e)      == e.k = "r" /\ e.n = 1 /\ e.ret = 1
ReadByte(e, b)  == ReadOne(e) /\ e.bytes = <<b>>

\* The record starts with: c written, one byte read, that byte is c.
Echoed(io, c) ==
    Len(io) >= 2 /\ WroteByte(io[1], c) /\ ReadByte(io[2], c)

RECURSIVE Received(_, _)
\* Number of bytes the reads io[i], io[i+1], ... delivered.
Received(io, i) ==
    IF i > Len(io) THEN 0
    ELSE (IF io[i].k = "r" /\ io[i].ret > 0 THEN io[i].ret ELSE 0) + Received(io, i + 1)

RECURSIVE BytesFrom(_, _)
\* The bytes the reads io[i], io[i+1], ... delivered, in order.
BytesFrom(io, i) ==
    IF i > Len(io) THEN <<>> ELSE io[i].bytes \o BytesFrom(io, i + 1)

\* C1: mems_send_command(c) returns true exactly when the one-byte write
\* reported 1 byte written, the following one-byte read returned 1 byte
\* and that byte is c; a failed or short write, no byte read or another
\* byte give false.  Checked for every c in 0..255 (SpecCmd).
C1_SendCommandIff ==
    \A t \in Threads :
        Returned(t, "mems_send_command") =>
            (th[t].rvb <=> (Len(th[t].io) = 2 /\ Echoed(th[t].io, th[t].arg)))

C1_Witness ==
    /\ Returned(Main, "mems_send_command")
    /\ th[Main].rvb
    /\ th[Main].arg = 255
    /\ Len(th[Main].io) = 2

\* C2: the transport accesses of two operations never interleave: no
\* thread reads or writes the device between two accesses of one call of
\* another thread.
C2_NoInterleaving == ~interleaved

\* C3: whenever a guarded operation has returned, with success or with
\* failure, the calling thread does not hold the connection mutex.
C3_MutexReleased ==
    \A t \in Threads :
        (th[t].pc = "ret" /\ th[t].op \in GuardedOps) => mutex # t

\* A guarded operation has returned failure after its command was written
\* and the echo did not match.
C3_Witness ==
    \E t \in Threads :
        /\ th[t].pc = "ret"
        /\ th[t].op \in GuardedOps
        /\ ~th[t].result
        /\ Len(th[t].io) = 2
        /\ th[t].io[2].ret = 1
        /\ th[t].io[2].bytes # th[t].io[1].bytes
        /\ mutex = NoThread

\* The system calls of mems_init_link in their order: position i of the
\* record is a write of HandshakeByte(i) for i in 1, 3, 5, 8, and a read
\* otherwise: of one byte up to position 9, of the identification after.
HandshakeWrites == {1, 3, 5, 8}
HandshakeByte(i) ==
    IF i \in {1, 2} THEN 202 ELSE IF i \in {3, 4} THEN 117
    ELSE IF i \in {5, 6} THEN 244 ELSE 208

InOrder(io) ==
    \A i \in 1 .. Len(io) :
        IF i \in HandshakeWrites
        THEN io[i].k = "w" /\ io[i].n = 1 /\ io[i].bytes = <<HandshakeByte(i)>>
        ELSE io[i].k = "r" /\ io[i].n = (IF i <= 9 THEN 1 ELSE 4)

\* System call i of the record succeeded and the handshake goes on to the
\* next one.
GoesOn(io, i) ==
    IF i \in HandshakeWrites THEN io[i].ret = 1
    ELSE IF i \in {2, 4, 6, 9} THEN ReadByte(io[i], HandshakeByte(i))
    ELSE IF i = 7 THEN ReadOne(io[i])
    ELSE io[i].ret > 0 /\ Received(SubSeq(io, 1, i), 10) < 4

\* The record of a handshake that went through.
Complete(io) ==
    /\ Len(io) >= 10
    /\ InOrder(io)
    /\ \A i \in 1 .. Len(io) - 1 : GoesOn(io, i)
    /\ io[Len(io)].ret > 0
    /\ Received(io, 10) = 4

\* C4: mems_init_link makes its system calls in the order write 0xCA,
\* read echo, write 0x75, read echo, write 0xF4, read echo, read 1 byte,
\* write 0xD0, read echo, read 4 bytes; none is made before the one before
\* it succeeded, and a successful call has written exactly four bytes.
C4_HandshakeOrder ==
    \A t \in Threads :
        th[t].op = "mems_init_link" =>
            /\ InOrder(th[t].io)
            /\ \A i \in 1 .. Len(th[t].io) - 1 : GoesOn(th[t].io, i)
            /\ (th[t].pc = "ret" /\ th[t].result) =>
                   /\ Complete(th[t].io)
                   /\ Cardinality({i \in 1 .. Len(th[t].io) : th[t].io[i].k = "w"}) = 4

\* A successful handshake whose identification arrived in two chunks.
C4_Witness ==
    /\ Returned(Main, "mems_init_link")
    /\ th[Main].result
    /\ Len(th[Main].io) = 11

\* C5: when a step of mems_init_link fails, the call returns false and the
\* failed system call is the last one it made: nothing is written or read
\* after it and nothing is repeated.
C5_HandshakeFailFast ==
    \A t \in Threads :
        (Returned(t, "mems_init_link") /\ ~th[t].result) =>
            LET io == th[t].io
                n  == Len(io)
            IN  /\ InOrder(io)
                /\ \A i \in 1 .. n - 1 : GoesOn(io, i)
                /\ ~Complete(io)
                /\ IF n = 0 THEN ~mems_is_connected(sd) ELSE ~GoesOn(io, n)

\* The handshake failed at the echo of 0xF4: five system calls went well,
\* the sixth is the last.
C5_Witness ==
    /\ Returned(Main, "mems_init_link")
    /\ ~th[Main].result
    /\ Len(th[Main].io) = 6
    /\ th[Main].io[6].ret = 1
    /\ th[Main].io[6].bytes # <<244>>

\* C6: mems_init_link returns true exactly when the four handshake bytes
\* were echoed, one byte was read after the echo of 0xF4 and exactly 4
\* bytes after the echo of 0xD0, whatever these bytes are; the caller's
\* buffer then holds the 4 bytes in the order received.
C6_HandshakeResult ==
    \A t \in Threads :
        Returned(t, "mems_init_link") =>
            /\ th[t].result <=> Complete(th[t].io)
            /\ th[t].result =>
                   /\ th[t].mem.d0 = BytesFrom(th[t].io, 10)
                   /\ th[t].mem.d0 = EcuIds[th[t].ecu]

\* Success with the second identification, a non-zero byte after the echo
\* of 0xF4 and the identification split over two reads.
C6_Witness ==
    /\ Returned(Main, "mems_init_link")
    /\ th[Main].result
    /\ th[Main].ecu = 2
    /\ th[Main].io[7].bytes = <<64>>
    /\ Len(th[Main].io) = 11
    /\ th[Main].io[10].ret = 3

\* C7: whenever mems_read returns false, the caller's mems_data is what it
\* was when the call was made.
C7_ReadFailureKeepsData ==
    \A t \in Threads :
        (Returned(t, "mems_read") /\ ~th[t].result) => th[t].data = th[t].old.data

\* mems_read failed on a frame that fell short after 27 bytes.
C7_Witness ==
    /\ Returned(Main, "mems_read")
    /\ ~th[Main].result
    /\ Echoed(th[Main].io, 128)
    /\ Received(th[Main].io, 3) = 27
    /\ th[Main].io[Len(th[Main].io)].ret = 0

\* C8: whenever mems_read_raw returns false, the caller's frame buffer is
\* what it was when the call was made.
C8_RawFailureKeepsFrame ==
    \A t \in Threads :
        (Returned(t, "mems_read_raw") /\ ~th[t].result) =>
            th[t].mem.frame = th[t].old.mem.frame

\* C9: mems_read and mems_read_raw return true exactly when 0x80 was
\* echoed and the transport then delivered the 28 bytes of the frame,
\* however it split them over its reads.
C9_FrameReadIff ==
    \A t \in Threads :
        (th[t].pc = "ret" /\ th[t].op \in {"mems_read", "mems_read_raw"}) =>
            (th[t].result <=>
                (Echoed(th[t].io, 128) /\ Received(th[t].io, 3) >= FrameSize))

\* C10: mems_clear_faults returns true only if 0xCC was written and echoed
\* and one more byte was read.
C10_ClearFaultsChecked ==
    \A t \in Threads :
        (Returned(t, "mems_clear_faults") /\ th[t].result) =>
            /\ Len(th[t].io) = 3
            /\ Echoed(th[t].io, 204)
            /\ ReadOne(th[t].io[3])

\* C11: mems_heartbeat returns true only if 0xF4 was written and echoed
\* and the byte read after the echo is 0x00.
C11_HeartbeatTrailingZero ==
    \A t \in Threads :
        (Returned(t, "mems_heartbeat") /\ th[t].result) =>
            /\ Len(th[t].io) = 3
            /\ Echoed(th[t].io, 244)
            /\ ReadByte(th[t].io[3], 0)

\* The byte each actuator operation sends for its argument.
ActuatorOps ==
    {"mems_fuel_pump_control", "mems_ptc_relay_control", "mems_ac_relay_control",
     "mems_test_injectors", "mems_test_coil", "mems_read_iac_position",
     "mems_move_idle_bypass_motor"}

ActuatorByte(o, a) ==
    IF o = "mems_fuel_pump_control" THEN (IF a THEN 17 ELSE 1)
    ELSE IF o = "mems_ptc_relay_control" THEN (IF a THEN 18 ELSE 2)
    ELSE IF o = "mems_ac_relay_control" THEN (IF a THEN 19 ELSE 3)
    ELSE IF o = "mems_test_injectors" THEN 247
    ELSE IF o = "mems_test_coil" THEN 248
    ELSE IF o = "mems_read_iac_position" THEN 251
    ELSE (IF a THEN 254 ELSE 253)

\* C12: an actuator operation writes the byte selected by its argument and
\* nothing else, reads the trailing byte only after that byte was echoed,
\* and returns true exactly when the echo and one trailing byte were read.
C12_ActuatorTransaction ==
    \A t \in Threads :
        th[t].op \in ActuatorOps =>
            LET io == th[t].io
                c  == ActuatorByte(th[t].op, th[t].arg)
            IN  /\ Len(io) <= 3
                /\ Len(io) >= 1 =>
                       io[1].k = "w" /\ io[1].n = 1 /\ io[1].bytes = <<c>>
                /\ Len(io) >= 2 => io[1].ret = 1 /\ io[2].k = "r" /\ io[2].n = 1
                /\ Len(io) = 3 => Echoed(io, c) /\ io[3].k = "r" /\ io[3].n = 1
                /\ th[t].pc = "ret" =>
                       (th[t].result <=>
                           (Len(io) = 3 /\ Echoed(io, c) /\ ReadOne(io[3])))

\* The A/C relay was switched off: 0x03 written and echoed, one byte read.
C12_Witness ==
    /\ Returned(Main, "mems_ac_relay_control")
    /\ ~th[Main].arg
    /\ th[Main].result
    /\ Len(th[Main].io) = 3
    /\ th[Main].io[1].bytes = <<3>>

\* C13: mems_move_iac issues at most 300 step commands; no step is issued
\* once the position read back equals the target; from 0x20 to 0x40 with
\* a valve that opens 0x10 per step it takes exactly 2 steps and succeeds;
\* with a valve that never moves it takes exactly 300 steps and fails.
C13_BoundedConvergence ==
    LET me == th[Main]
        done == me.iacpc = "done" /\ me.result
    IN  "iacpc" \in DOMAIN me =>
            /\ me.steps <= 300
            /\ (me.iacpc = "step" /\ me.pc \in {"lock", "locked", "write"}) =>
                   me.observed # me.desired_pos
            /\ (done /\ me.start = 32 /\ me.desired_pos = 64 /\ me.valve.stride = 16) =>
                   me.steps = 2 /\ me.iacresult
            /\ (done /\ me.valve.stride = 0 /\ me.start # me.desired_pos
                      /\ ~(me.start = 180 /\ me.desired_pos > 180)) =>
                   me.steps = 300 /\ ~me.iacresult

\* 300 steps were made on a valve that does not move.
C13_Witness ==
    /\ "iacpc" \in DOMAIN th[Main]
    /\ th[Main].iacpc = "done"
    /\ th[Main].result
    /\ th[Main].valve.stride = 0
    /\ th[Main].steps = 300
    /\ ~th[Main].iacresult

\* C14: when the position query returns the target, mems_move_iac issues
\* no step command and returns true; when the query fails it returns
\* without having issued a step command.
C14_NoStepAtTarget ==
    LET me == th[Main]
    IN  ("iacpc" \in DOMAIN me /\ me.iacpc \in {"step", "done"}) =>
            /\ (me.steps = 0 /\ me.observed = me.desired_pos) =>
                   me.iacpc = "done" /\ me.iacresult
            /\ (me.observed # -1 /\ me.start = me.desired_pos) => me.steps = 0
            /\ me.observed = -1 => me.steps = 0 /\ me.iacpc = "done"

\* The query returned 0x40, the target: no step, result true.
C14_Witness ==
    /\ "iacpc" \in DOMAIN th[Main]
    /\ th[Main].iacpc = "done"
    /\ th[Main].observed = 64
    /\ th[Main].desired_pos = 64
    /\ th[Main].steps = 0
    /\ th[Main].iacresult

\* C15: mems_move_iac returns true exactly when the last position observed
\* during the call equals the target; with the valve at IAC_MAXIMUM and a
\* target above it, no step is made and the result is that comparison.
C15_ResultIsLastObserved ==
    LET me == th[Main]
    IN  ("iacpc" \in DOMAIN me /\ me.iacpc = "done") =>
            /\ me.iacresult <=> (me.observed # -1 /\ me.observed = me.desired_pos)
            /\ (me.observed = 180 /\ me.start = 180 /\ me.desired_pos > 180) =>
                   me.steps = 0 /\ ~me.iacresult

\* The valve is at 0xB4 and the target is 0xC8.
C15_Witness ==
    /\ "iacpc" \in DOMAIN th[Main]
    /\ th[Main].iacpc = "done"
    /\ th[Main].observed = 180
    /\ th[Main].desired_pos = 200
    /\ th[Main].steps = 0
    /\ ~th[Main].iacresult

\* mems_read has returned true to the thread that reads the frames of
\* SpecDecode.
Decoded == "line" \in DOMAIN th[Main] /\ Returned(Main, "mems_read") /\ th[Main].result

\* C16: after a successful mems_read, engine_rpm is hi * 256 + lo for the
\* bytes hi (frame byte 1) and lo (frame byte 2) of the frame, a value in
\* 0..65535; for every pair of bytes.
C16_EngineRpm ==
    Decoded =>
        /\ th[Main].data.engine_rpm = th[Main].line[2] * 256 + th[Main].line[3]
        /\ th[Main].data.engine_rpm \in 0 .. 65535

\* The frame carried 0x12, 0x34: 4660 rpm.
C16_Witness ==
    /\ Decoded
    /\ th[Main].line[2] = 18
    /\ th[Main].line[3] = 52
    /\ th[Main].data.engine_rpm = 4660

\* x / 10 truncated toward zero.
TruncTenth(x) == IF x < 0 THEN -((-x) \div 10) ELSE x \div 10

\* C17: after a successful mems_read, coolant_temp_f is (v - 55) * 1.8 + 32
\* truncated toward zero for the coolant byte v of the frame, for every v
\* in 0..255.
C17_TemperatureLinear ==
    Decoded =>
        th[Main].data.coolant_temp_f = TruncTenth((th[Main].line[4] - 55) * 18 + 320)

\* C18: after a successful mems_read, fault_codes has bit 0 iff dtc0 & 0x01,
\* bit 1 iff dtc0 & 0x02, bit 2 iff dtc1 & 0x02, bit 3 iff dtc1 & 0x80, and
\* no other bit, whatever the snapshot held before; 0x03, 0x82 give 15.
C18_FaultMask ==
    Decoded =>
        LET dtc0 == th[Main].line[14]
            dtc1 == th[Main].line[15]
            mask == th[Main].data.fault_codes
        IN  /\ mask \in 0 .. 15
            /\ (mask % 2 = 1) <=> (dtc0 % 2 = 1)
            /\ ((mask \div 2) % 2 = 1) <=> ((dtc0 \div 2) % 2 = 1)
            /\ ((mask \div 4) % 2 = 1) <=> ((dtc1 \div 2) % 2 = 1)
            /\ ((mask \div 8) % 2 = 1) <=> (dtc1 >= 128)
            /\ (dtc0 = 3 /\ dtc1 = 130) => mask = 15

\* dtc0 = 0x03 and dtc1 = 0x82 decoded over a snapshot that held 9.
C18_Witness ==
    /\ Decoded
    /\ th[Main].line[14] = 3
    /\ th[Main].line[15] = 130
    /\ th[Main].old.data.fault_codes = 9
    /\ th[Main].data.fault_codes = 15

\* C19: two successful calls of mems_read that received the same frame
\* leave equal snapshots in every field of mems_data, whatever the two
\* structures held before.
C19_DecodePure ==
    \A t1 \in Threads, t2 \in Threads :
        (/\ Returned(t1, "mems_read") /\ th[t1].result
         /\ Returned(t2, "mems_read") /\ th[t2].result
         /\ th[t1].ecu = th[t2].ecu) =>
            th[t1].data = th[t2].data

\* C20: mems_connect called while the connection is open returns true,
\* leaves info->sd as it is and opens nothing, for either device path:
\* exactly one descriptor is open after it, however often it is repeated.
C20_ConnectIdempotent ==
    LET me == th[Main]
    IN  ("sd0" \in DOMAIN me /\ me.op = "mems_connect" /\ me.pc # "lock"
         /\ me.sd0 > 0 /\ me.sd0 \in me.open0) =>
            /\ sd = me.sd0
            /\ osOpen = me.open0
            /\ Cardinality(osOpen) = 1
            /\ me.pc = "ret" => me.result

\* The third mems_connect in a row, with another path, on the connection
\* the first one opened.
C20_Witness ==
    /\ "sd0" \in DOMAIN th[Main]
    /\ Returned(Main, "mems_connect")
    /\ th[Main].calls = 3
    /\ ~th[Main].arg
    /\ closes = 0
    /\ th[Main].sd0 = SerialFd
    /\ th[Main].result
    /\ osOpen = {SerialFd}

\* C21: mems_connect returns true only if the device is open and
\* configured when it returns; after connects that failed at open or at
\* configuration, a connect that opens nothing does not return true.
C21_ConnectTrueMeansOpen ==
    ("sd0" \in DOMAIN th[Main] /\ Returned(Main, "mems_connect") /\ th[Main].result) =>
        sd \in osOpen

\* C22: in every state mems_is_connected is true exactly when info->sd is
\* a descriptor that is open.
C22_ConnectedIffOpen ==
    "sd0" \in DOMAIN th[Main] => (mems_is_connected(sd) <=> sd \in osOpen)

\* C23: after mems_disconnect returns, the connection is not connected; a
\* device that was open has been closed once, by this call; a disconnect
\* of a connection that was not open has called no close() and changed
\* nothing; and an operation called after a disconnect reads and writes
\* nothing.
C23_DisconnectClosesOnce ==
    LET me == th[Main]
    IN  "sd0" \in DOMAIN me =>
            /\ Returned(Main, "mems_disconnect") =>
                   /\ ~mems_is_connected(sd)
                   /\ IF me.sd0 \in me.open0
                      THEN closes = me.closes0 + 1
                           /\ osOpen = me.open0 \ {me.sd0}
                      ELSE closes = me.closes0 /\ osOpen = me.open0
            /\ (me.op = "mems_heartbeat" /\ me.sd0 = 0) =>
                   me.io = <<>> /\ (me.pc = "ret" => ~me.result)

\* The positions at which thread t's next step reads, writes, closes or
\* replaces info->sd.
SdAccess(t) ==
    \/ th[t].pc \in {"read", "read_more", "write", "open", "configure", "cleanup"}
    \/ th[t].pc = "locked" /\ th[t].op \in {"mems_connect", "mems_disconnect"}

\* C24: no step of a thread reads, writes, closes or replaces info->sd
\* while a different thread holds the mutex.
C24_ExclusiveDescriptor ==
    [][\A t \in Threads :
          (SdAccess(t) /\ th'[t] # th[t]) => mutex \in {NoThread, t}]_vars

Writes(io) == {i \in 1 .. Len(io) : io[i].k = "w"}

\* C26: in one call of an operation each command byte is written at most
\* once (mems_init_link writes four different bytes, every other
\* operation at most one byte), and a read after a write that does not
\* deliver the byte written is the last system call of the call, which
\* then returns failure.
C26_NoRetry ==
    \A t \in Threads :
        LET io == th[t].io
        IN  th[t].op \in Ops =>
              /\ \A i \in Writes(io), j \in Writes(io) :
                     i # j => io[i].bytes # io[j].bytes
              /\ th[t].op # "mems_init_link" => Cardinality(Writes(io)) <= 1
              /\ \A i \in Writes(io) :
                     (i < Len(io) /\ ~ReadByte(io[i + 1], io[i].bytes[1])) =>
                         /\ Len(io) = i + 1
                         /\ th[t].pc = "ret" => ~th[t].result

Min(a, b) == IF a < b THEN a ELSE b

\* C28: when mems_read_serial has received at least one byte, it returns
\* the number of bytes its reads delivered (the sum of their positive
\* results), and the buffer holds these bytes from its start in the order
\* received, whatever the read that ended the loop returned.
C28_ReturnsBytesReceived ==
    LET me == th[Main]
        n  == Received(me.io, 1)
    IN  (Returned(Main, "mems_read_serial") /\ n > 0) =>
            /\ me.rvi = n
            /\ \A i \in 1 .. Min(n, Len(me.mem[me.dst])) :
                   me.mem[me.dst][i] = BytesFrom(me.io, 1)[i]

\* C29: mems_read_serial returns -1 when it received no byte: when the
\* connection is not open and when its first read returns 0 or an error.
C29_MinusOneWhenNothingRead ==
    LET me == th[Main]
    IN  (Returned(Main, "mems_read_serial") /\ Received(me.io, 1) = 0) =>
            me.rvi = -1

\* C30: mems_read_serial(info, buffer, q) stores nothing beyond the q
\* bytes of the buffer, returns at most q, and each of its reads asks for
\* no more than the bytes still missing.
C30_NeverBeyondQuantity ==
    LET me == th[Main]
    IN  me.op = "mems_read_serial" =>
            /\ me.overrun = 0
            /\ me.pc = "ret" => me.rvi <= me.quantity
            /\ \A i \in 1 .. Len(me.io) :
                   me.io[i].n <= me.quantity - Received(SubSeq(me.io, 1, i - 1), 1)

\* C31: the descriptor that open() returned is passed to close() at most
\* once: closes counts the close() calls on it since it was opened, in
\* mems_openserial, mems_disconnect and mems_cleanup together.
C31_ClosedAtMostOnce ==
    "sd0" \in DOMAIN th[Main] => closes <= 1

\* C32: on the WIN32 build a thread that waits for the mutex, the thread
\* that called mems_init or another one, eventually holds it, whatever
\* lock/unlock pairs the initializing thread has completed.
C32_Win32WaiterAcquires ==
    \A t \in Threads :
        ("held" \in DOMAIN th[t] /\ th[t].pc = "lock") ~> (mutex = t)

====
